---------------------------- MODULE Spec2Model ----------------------------
(***************************************************************************)
(* Model of feddit_analyzer: the request core (api/_core.py) with the      *)
(* paginated comment retrieval and its bounded, time-filtered merge window *)
(* (_get_all_comments), the orchestration around it                        *)
(* (analyze_comments_sentiment) and the title cache of get_subfeddit_id;   *)
(* the request models of the endpoints; the sentiment_analysis package     *)
(* (response validation, polarity, classification); the response handling  *)
(* of the Feddit client; and the wait-api script.                          *)
(*                                                                         *)
(* The specifications share the variables:                                 *)
(*   SpecWindow    _get_all_comments on its own, over every source built   *)
(*                 from MaxId comment ids, any created_at assignment       *)
(*                 (ties included) and any delivery order (repeats         *)
(*                 included);                                              *)
(*   SpecPaging    the same call under fairness, over the sources of one   *)
(*                 created_at assignment that hold every comment once;     *)
(*   Spec          analyze_comments_sentiment end to end over those        *)
(*                 sources, with every scorer response of up to            *)
(*                 (texts sent + 1) outputs;                               *)
(*   SpecFailing   the same, with every awaited fetch and the scorer       *)
(*                 call failing as well as answering;                      *)
(*   SpecRequest   a request body validated at either endpoint, then       *)
(*                 analyze_comments_sentiment for the accepted ones;       *)
(*   SpecAnalyzer  analyze_sentiment on one HTTP response of the model     *)
(*                 API (any scores, any labels, any status) and            *)
(*                 Sentiment.from_polarity on any value from -2 to 2;      *)
(*   SpecClients   _handle_response of both clients on one response of     *)
(*                 any status and body;                                    *)
(*   SpecCache     get_subfeddit_id for any title against any warm cache   *)
(*                 and listing, with entries expiring while it awaits      *)
(*                 and the source failing;                                 *)
(*   SpecCacheFair the same under fairness of the resumed call;            *)
(*   SpecSearch    the same over listings that repeat a title as well;     *)
(*   SpecShared    two requests calling get_subfeddit_id on one event      *)
(*                 loop, sharing the cache;                                *)
(*   SpecWait      the wait-api script for any --retries up to             *)
(*                 MaxRetries and any sequence of answers.                 *)
(***************************************************************************)
EXTENDS Integers, Sequences, FiniteSets

(***************************************************************************)
(* Sizes.  _QUERY_LIMIT is 25 and _QUERY_BATCH_SIZE 5000 in the source;    *)
(* the model runs the same code with both scaled down so that sources      *)
(* longer than the window and longer than a page are enumerable.           *)
(***************************************************************************)
QUERY_LIMIT == 2

QUERY_BATCH_SIZE == 2

\* Rows a source holds at most.
MaxComments == 3

\* Comment ids are 1..MaxId; there are as many timestamps as ids, so that
\* every id can have its own and ties are possible as well.
MaxId == 3

VARIABLES
    source,            \* the rows the comment source holds, in its own order
    min_datetime,      \* <<>> for None, <<t>> for a bound
    max_datetime,      \* <<>> for None, <<t>> for a bound
    sort_by_polarity,  \* request flag
    pc,                \* position of the request
    skip,              \* _get_all_comments: local skip
    comments,          \* _get_all_comments: local comments (the window)
    fetches,           \* history: <<skip, limit, rows received>> per fetch
    scorer_calls,      \* history: the list of texts of each scorer call
    n_outputs,         \* history: outputs in the scorer's response, <<>> if none yet
    analyses,          \* comments_sentiment as returned by analyze_sentiment
    result,            \* value returned by analyze_comments_sentiment
    error,             \* "" or the kind of the exception that ended the request
    apc,               \* position of a call into the sentiment_analysis package
    inputs,            \* analyze_sentiment: the statements passed in and posted as "inputs"
    response,          \* the model API's HTTP response to the request
    polarity_in,       \* Sentiment.from_polarity: the polarity passed in
    outcome,           \* <<>> while the call runs, then <<what it returned or raised>>
    subfeddits,        \* the subfeddits the source lists, in its own order
    subfeddit_cache,   \* the module's TTLCache from title to id
    calls,             \* the calls of get_subfeddit_id in progress, one per request
    wpc,               \* position of the wait-api script
    retries,           \* wait_api: the --retries option
    attempts,          \* wait_api: local attempts
    version_requests,  \* history: what each request for the version came to
    exit_code          \* <<>> while the script runs, then <<its exit status>>

coreVars == <<source, min_datetime, max_datetime, sort_by_polarity, pc, skip, comments,
              fetches, scorer_calls, n_outputs, analyses, result, error>>

analyzerVars == <<apc, inputs, response, polarity_in, outcome>>

cacheVars == <<subfeddits, subfeddit_cache, calls>>

waitVars == <<wpc, retries, attempts, version_requests, exit_code>>

vars == <<coreVars, analyzerVars, cacheVars, waitVars>>

---------------------------------------------------------------------------
(* Data *)

Ids == 1..MaxId

Times == 1..MaxId

\* CommentInfo.text: an opaque value, one per comment id, never equal to an id.
TextOf(i) == <<"text", i>>

\* CommentInfo (username plays no part in the core and is left out).
CommentInfo(i, t) == [id |-> i, created_at |-> t, text |-> TextOf(i)]

None == <<>>

\* min_datetime / max_datetime: int | None.
OptionalTimes == {None} \cup {<<t>> : t \in Times}

\* Sequences over S of length at most n.
SeqsUpTo(S, n) == UNION {[1..k -> S] : k \in 0..n}

\* seq[from+1 .. from+count], clipped to the sequence: list slicing / skip+limit.
Slice(seq, from, count) ==
    SubSeq(seq, from + 1, IF from + count < Len(seq) THEN from + count ELSE Len(seq))

\* seq[:n]
Take(seq, n) == Slice(seq, 0, n)

---------------------------------------------------------------------------
(* The comment source behind FedditAPIClient.get_subfeddit_comments *)

\* The rows a fetch with the given skip and limit returns.
get_subfeddit_comments(src, sk, limit) == Slice(src, sk, limit)

---------------------------------------------------------------------------
(* _get_all_comments: the loop body *)

\* The condition with the lower bound taken as exclusive.
InTimeRangeExclusiveMin(c, lo, hi) ==
    /\ (lo = None \/ c.created_at > lo[1])
    /\ (hi = None \/ c.created_at <= hi[1])

\* The comprehension's condition, lines 166-167.
InTimeRange(c, lo, hi) ==
    /\ (lo = None \/ c.created_at >= lo[1])
    /\ (hi = None \/ c.created_at <= hi[1])

\* The filtering comprehension, lines 163-168: order-preserving.
RECURSIVE FilterBatch(_, _, _)
FilterBatch(batch, lo, hi) ==
    IF batch = <<>> THEN <<>>
    ELSE LET rest == FilterBatch(Tail(batch), lo, hi)
         IN  IF InTimeRange(Head(batch), lo, hi) THEN <<Head(batch)>> \o rest ELSE rest

\* The insertion of an ascending sort (reverse=True forgotten).
RECURSIVE InsertByCreatedAtAscending(_, _)
InsertByCreatedAtAscending(sorted, c) ==
    IF sorted = <<>> THEN <<c>>
    ELSE IF Head(sorted).created_at <= c.created_at
         THEN <<Head(sorted)>> \o InsertByCreatedAtAscending(Tail(sorted), c)
         ELSE <<c>> \o sorted

\* Where a stable descending sort puts c into an already sorted list: after
\* every entry whose created_at is >= c's.
RECURSIVE InsertByCreatedAt(_, _)
InsertByCreatedAt(sorted, c) ==
    IF sorted = <<>> THEN <<c>>
    ELSE IF Head(sorted).created_at >= c.created_at
         THEN <<Head(sorted)>> \o InsertByCreatedAt(Tail(sorted), c)
         ELSE <<c>> \o sorted

\* comments.sort(key=created_at, reverse=True), line 172: list.sort is stable,
\* and stays stable under reverse=True.
RECURSIVE SortByCreatedAt(_)
SortByCreatedAt(seq) ==
    IF seq = <<>> THEN <<>>
    ELSE InsertByCreatedAt(SortByCreatedAt(SubSeq(seq, 1, Len(seq) - 1)), seq[Len(seq)])

\* The slice taken one entry too long.
TruncateOneMore(seq) == Take(seq, QUERY_LIMIT + 1)

\* comments[:_QUERY_LIMIT], line 174.
Truncate(seq) == Take(seq, QUERY_LIMIT)

\* The merge that sorts the incoming batch only, not the extended list.
MergeBatchSortsBatchOnly(window, batch, lo, hi) ==
    Truncate(window \o SortByCreatedAt(FilterBatch(batch, lo, hi)))

\* Lines 163-174: filter the batch, extend, sort, truncate.
MergeBatch(window, batch, lo, hi) ==
    Truncate(SortByCreatedAt(window \o FilterBatch(batch, lo, hi)))

\* The stop test with <= in place of <.
IsLastBatchOrFull(batch) == Len(batch) <= QUERY_BATCH_SIZE

\* Line 161.
IsLastBatch(batch) == Len(batch) < QUERY_BATCH_SIZE

---------------------------------------------------------------------------
(* _get_all_comments called on its own *)

\* One iteration of the while loop, from the awaited fetch to the break or
\* to the next fetch; at the break the function returns its comments.
GetAllComments ==
    /\ pc = "fetching"
    /\ LET batch == get_subfeddit_comments(source, skip, QUERY_BATCH_SIZE)
       IN  /\ fetches' = Append(fetches, <<skip, QUERY_BATCH_SIZE, Len(batch)>>)
           /\ comments' = MergeBatch(comments, batch, min_datetime, max_datetime)
           /\ IF IsLastBatch(batch)
              THEN /\ pc' = "returned"
                   /\ skip' = skip
              ELSE /\ pc' = "fetching"
                   /\ skip' = skip + QUERY_BATCH_SIZE
    /\ UNCHANGED <<source, min_datetime, max_datetime, sort_by_polarity,
                   scorer_calls, n_outputs, analyses, result, error>>
    /\ UNCHANGED <<analyzerVars, cacheVars, waitVars>>

\* Every source of at most MaxComments rows over the ids, under one
\* created_at assignment: a repeated id is the same comment again.
Sources(maps) ==
    {[k \in 1..Len(ids) |-> CommentInfo(ids[k], m[ids[k]])] :
        ids \in SeqsUpTo(Ids, MaxComments), m \in maps}

\* The sources among them that hold every comment once.
SourcesWithoutRepeats(maps) ==
    {src \in Sources(maps) :
        \A j, k \in 1..Len(src) : j # k => src[j].id # src[k].id}

\* The requests whose calls of get_subfeddit_id share the event loop.
Reqs == {"r1", "r2"}

\* TTLCache(_CACHE_MAX_SIZE, _CACHE_TTL) as constructed: no entry.  data is
\* the mapping, lru the keys from least to most recently used, links the keys
\* from the first to the last to expire.
EmptyCache == [data |-> <<>>, lru |-> <<>>, links |-> <<>>]

\* A request that has not called get_subfeddit_id.  Besides the locals of the
\* call (subfeddit_title, cached_id, skip) and its end (returned, error) the
\* record keeps its history: the ids it asked the source to resolve, the
\* skips it listed with, the answers it got, the subfeddits it scanned (all,
\* and those of the last batch), and whether the cache was as the call had
\* left it (left) each time the call was resumed.
IdleCall ==
    [pc |-> "idle", subfeddit_title |-> None, cached_id |-> None, skip |-> 0,
     returned |-> None, error |-> "", resolves |-> <<>>, listings |-> <<>>,
     answers |-> <<>>, seen |-> <<>>, scanned |-> <<>>,
     left |-> EmptyCache, undisturbed |-> TRUE]

\* No call of get_subfeddit_id is being followed.
CacheIdle ==
    /\ subfeddits = <<>>
    /\ subfeddit_cache = EmptyCache
    /\ calls = [r \in Reqs |-> IdleCall]

\* The wait-api script is not run.
WaitIdle ==
    /\ wpc = "idle"
    /\ retries = 0
    /\ attempts = 0
    /\ version_requests = <<>>
    /\ exit_code = None

\* No call into the sentiment_analysis package is being followed.
AnalyzerIdle ==
    /\ apc = "idle"
    /\ inputs = <<>>
    /\ response = [status_code |-> 0, json |-> <<>>]
    /\ polarity_in = [num |-> 0, den |-> 1]
    /\ outcome = <<>>

StartOfCall ==
    /\ pc = "fetching"
    /\ skip = 0
    /\ comments = <<>>
    /\ fetches = <<>>
    /\ scorer_calls = <<>>
    /\ n_outputs = None
    /\ analyses = <<>>
    /\ result = <<>>
    /\ error = ""

InitWindow ==
    /\ WaitIdle
    /\ source \in Sources([Ids -> Times])
    /\ min_datetime \in OptionalTimes
    /\ max_datetime \in OptionalTimes
    /\ sort_by_polarity = FALSE
    /\ StartOfCall
    /\ AnalyzerIdle
    /\ CacheIdle

NextWindow == GetAllComments

SpecWindow == InitWindow /\ [][NextWindow]_vars

\* The created_at assignment in which a smaller id is a more recent comment.
CreatedAtByRecency == [i \in Ids |-> MaxId + 1 - i]

\* The same call over the sources of that one assignment that hold every
\* comment once, in any order.  The event loop resumes the coroutine once the
\* awaited fetch has answered, which is what the fairness condition states.
InitPaging ==
    /\ WaitIdle
    /\ source \in SourcesWithoutRepeats({CreatedAtByRecency})
    /\ min_datetime \in OptionalTimes
    /\ max_datetime \in OptionalTimes
    /\ sort_by_polarity = FALSE
    /\ StartOfCall
    /\ AnalyzerIdle
    /\ CacheIdle

SpecPaging == InitPaging /\ [][NextWindow]_vars /\ WF_vars(GetAllComments)

---------------------------------------------------------------------------
(* SentimentAnalyzer.analyze_sentiment: from the model's outputs to analyses *)

\* Scores are counted in units of 1/ScoreOne: ScoreOne is the score 1.0, and
\* the floating-point polarity is kept as an exact fraction.
ScoreOne == 5

\* One statement's output in a validated ModelResponse: the scores of the
\* three labels (with ScoreOne = 5 a 1 is the score 0.2).
Scores(p, n, g) == [positive |-> p, neutral |-> n, negative |-> g]

\* The outputs the hosted model answers with: polarity 0.2, 0.8, -0.8, and
\* the all-zero output.
ScorerOutputs == {Scores(1, 4, 0), Scores(4, 1, 0), Scores(0, 1, 4), Scores(0, 0, 0)}

Ok(v) == [ok |-> TRUE, value |-> v]

Raise(kind) == [ok |-> FALSE, error |-> kind]

\* zip(a, b, strict=False): pairs up to the shorter length, the rest dropped.
Zip(a, b) == [i \in 1..(IF Len(a) < Len(b) THEN Len(a) ELSE Len(b)) |-> <<a[i], b[i]>>]

\* The polarity taken over the positive and negative scores only.
compute_polarity_without_neutral(positive, neutral, negative) ==
    IF positive + negative = 0
    THEN Raise("ZeroDivisionError")
    ELSE Ok([num |-> positive - negative, den |-> positive + negative])

\* _compute_polarity: (positive - negative) / (positive + neutral + negative),
\* kept as the fraction num/den; a zero denominator is Python's
\* ZeroDivisionError.
compute_polarity(positive, neutral, negative) ==
    IF positive + neutral + negative = 0
    THEN Raise("ZeroDivisionError")
    ELSE Ok([num |-> positive - negative, den |-> positive + neutral + negative])

\* a >= b for fractions with positive denominators.
PolarityGeq(a, b) == a.num * b.den >= b.num * a.den

\* InvalidPolarityError(polarity): the exception keeps the value it was
\* raised for.
InvalidPolarityError(polarity) ==
    [ok |-> FALSE, error |-> "InvalidPolarityError", polarity |-> polarity]

\* The threshold of the classification.
POL_TH == 0

\* A classification that counts the threshold itself as negative.
from_polarity_above_threshold(polarity) ==
    IF ~(-polarity.den <= polarity.num /\ polarity.num <= polarity.den)
    THEN InvalidPolarityError(polarity)
    ELSE Ok(IF polarity.num > POL_TH * polarity.den THEN "positive" ELSE "negative")

\* A classification that clamps what lies outside [-1, 1] instead of raising.
from_polarity_clamping(polarity) ==
    Ok(IF polarity.num >= POL_TH * polarity.den THEN "positive" ELSE "negative")

\* Sentiment.from_polarity.
from_polarity(polarity) ==
    IF ~(-polarity.den <= polarity.num /\ polarity.num <= polarity.den)
    THEN InvalidPolarityError(polarity)
    ELSE Ok(IF polarity.num >= POL_TH * polarity.den THEN "positive" ELSE "negative")

\* _analyze_output.
analyze_output(statement, output) ==
    LET polarity == compute_polarity(output.positive, output.neutral, output.negative)
    IN  IF ~polarity.ok THEN polarity
        ELSE LET sentiment == from_polarity(polarity.value)
             IN  IF ~sentiment.ok THEN sentiment
                 ELSE Ok([statement |-> statement,
                          polarity |-> polarity.value,
                          sentiment |-> sentiment.value])

\* _process_outputs: one analysis per (statement, output) pair of the zip, in
\* order; the first pair that raises ends the call.
process_outputs(statements, outputs) ==
    LET pairs == Zip(statements, outputs)
        each == [i \in 1..Len(pairs) |-> analyze_output(pairs[i][1], pairs[i][2])]
        bad == {i \in 1..Len(pairs) : ~each[i].ok}
    IN  IF bad # {}
        THEN each[CHOOSE i \in bad : \A j \in bad : i <= j]
        ELSE Ok([i \in 1..Len(pairs) |-> each[i].value])

---------------------------------------------------------------------------
(* SentimentAnalyzer.analyze_sentiment: from the HTTP response to the outputs *)

NLABELS == 3

RequiredLabels == {"positive", "negative", "neutral"}

\* SentimentScore as it arrives in the response body.
SentimentScore(l, s) == [label |-> l, score |-> s]

\* The range check with both ends excluded.
score_must_be_inside_0_and_1(value) ==
    IF ~(0 < value /\ value < ScoreOne) THEN Raise("ValueError") ELSE Ok(value)

\* SentimentScore._score_must_be_between_0_and_1.
score_must_be_between_0_and_1(value) ==
    IF ~(0 <= value /\ value <= ScoreOne) THEN Raise("ValueError") ELSE Ok(value)

\* ModelResponse._validate_required_labels.  The raise statement builds
\* pydantic's ValidationError from a message; that class has no such
\* constructor (pydantic 2, the version field_validator belongs to), so what
\* leaves the validator is the TypeError of the failed construction.
validate_required_labels(value) ==
    IF \E k \in 1..Len(value) :
          \/ Len(value[k]) # NLABELS
          \/ {value[k][j].label : j \in 1..Len(value[k])} # RequiredLabels
    THEN Raise("TypeError")
    ELSE Ok(value)

\* ModelResponse.model_validate({"outputs": content}): the items are validated
\* first, a ValueError of an item's validator becoming the ValidationError of
\* the model; the validator of the outputs field runs on valid items only,
\* and an exception of it that is neither ValueError nor AssertionError
\* passes through pydantic as it is.
model_validate(outputs) ==
    IF \E k \in 1..Len(outputs) : \E j \in 1..Len(outputs[k]) :
          ~score_must_be_between_0_and_1(outputs[k][j].score).ok
    THEN Raise("ValidationError")
    ELSE validate_required_labels(outputs)

\* _handle_response of the analyzer.
handle_response(resp) ==
    CASE resp.status_code = 200 ->
            LET validated == model_validate(resp.json)
            IN  IF validated.ok THEN validated
                ELSE IF validated.error \in {"ValidationError", "ValueError"}
                     THEN Raise("ResponseValidationError")
                     ELSE validated
      [] resp.status_code = 400 -> Raise("BadRequestError")
      [] resp.status_code = 404 -> Raise("NotFoundError")
      [] resp.status_code = 500 -> Raise("InternalServerError")
      [] OTHER -> Raise("UnexpectedError")

\* Line 156: scores = {score.label: score.score for score in output}, read at
\* the three labels; of two entries with one label the later one counts.
ScoresByLabel(output) ==
    LET last(l) == CHOOSE j \in 1..Len(output) :
                       /\ output[j].label = l
                       /\ \A k \in (j + 1)..Len(output) : output[k].label # l
    IN  Scores(output[last("positive")].score,
               output[last("neutral")].score,
               output[last("negative")].score)

\* analyze_sentiment: _request_sentiment, then _process_outputs.
analyze_sentiment(stmts, resp) ==
    LET model_response == handle_response(resp)
    IN  IF ~model_response.ok THEN model_response
        ELSE process_outputs(stmts,
                 [k \in 1..Len(model_response.value) |->
                     ScoresByLabel(model_response.value[k])])

---------------------------------------------------------------------------
(* analyze_comments_sentiment *)

\* The request without its early return.
NoCommentsNever(cs) == FALSE

\* Line 102: `if not comments`.
NoComments(cs) == cs = <<>>

\* The texts sent oldest first.
CommentTextsReversed(cs) == [i \in 1..Len(cs) |-> cs[Len(cs) + 1 - i].text]

\* Line 108: [comment.text for comment in comments].
CommentTexts(cs) == [i \in 1..Len(cs) |-> cs[i].text]

\* The pairing that walks the sentiments from the last one backwards.
ResponsesSentimentsReversed(cs, sentiments) ==
    LET pairs == Zip(cs, sentiments)
    IN  [i \in 1..Len(pairs) |->
            [comment_id |-> pairs[i][1].id,
             comment |-> pairs[i][1].text,
             polarity |-> pairs[Len(pairs) + 1 - i][2].polarity,
             classification |-> pairs[Len(pairs) + 1 - i][2].sentiment]]

\* Lines 114-122: one CommentSentiment per pair of zip(comments,
\* comments_sentiment, strict=False).
Responses(cs, sentiments) ==
    LET pairs == Zip(cs, sentiments)
    IN  [i \in 1..Len(pairs) |->
            [comment_id |-> pairs[i][1].id,
             comment |-> pairs[i][1].text,
             polarity |-> pairs[i][2].polarity,
             classification |-> pairs[i][2].sentiment]]

\* The insertion of a descending sort that puts equal polarities in front.
RECURSIVE InsertByPolarityUnstable(_, _)
InsertByPolarityUnstable(sorted, r) ==
    IF sorted = <<>> THEN <<r>>
    ELSE IF ~PolarityGeq(r.polarity, Head(sorted).polarity)
         THEN <<Head(sorted)>> \o InsertByPolarityUnstable(Tail(sorted), r)
         ELSE <<r>> \o sorted

\* Where a stable descending sort by polarity puts r into a sorted list.
RECURSIVE InsertByPolarity(_, _)
InsertByPolarity(sorted, r) ==
    IF sorted = <<>> THEN <<r>>
    ELSE IF PolarityGeq(Head(sorted).polarity, r.polarity)
         THEN <<Head(sorted)>> \o InsertByPolarity(Tail(sorted), r)
         ELSE <<r>> \o sorted

\* responses.sort(key=polarity, reverse=True), line 126.
RECURSIVE SortByPolarity(_)
SortByPolarity(seq) ==
    IF seq = <<>> THEN <<>>
    ELSE InsertByPolarity(SortByPolarity(SubSeq(seq, 1, Len(seq) - 1)), seq[Len(seq)])

\* Lines 98-109 around one iteration of _get_all_comments' loop: the fetch is
\* awaited and merged; after the last batch the comments come back, and the
\* request either returns [] or sends all texts to the scorer and awaits it.
AnalyzeFetch ==
    /\ pc = "fetching"
    /\ LET batch == get_subfeddit_comments(source, skip, QUERY_BATCH_SIZE)
           merged == MergeBatch(comments, batch, min_datetime, max_datetime)
       IN  /\ fetches' = Append(fetches, <<skip, QUERY_BATCH_SIZE, Len(batch)>>)
           /\ comments' = merged
           /\ IF ~IsLastBatch(batch)
              THEN /\ pc' = "fetching"
                   /\ skip' = skip + QUERY_BATCH_SIZE
                   /\ UNCHANGED scorer_calls
              ELSE /\ skip' = skip
                   /\ IF NoComments(merged)
                      THEN /\ pc' = "done"
                           /\ UNCHANGED scorer_calls
                      ELSE /\ pc' = "scoring"
                           /\ scorer_calls' = Append(scorer_calls, CommentTexts(merged))
    /\ UNCHANGED <<source, min_datetime, max_datetime, sort_by_polarity,
                   n_outputs, analyses, result, error>>
    /\ UNCHANGED <<analyzerVars, cacheVars, waitVars>>

\* Lines 107-128 from the scorer's answer on: the model answers with some
\* number of outputs, analyze_sentiment turns them into analyses, and the
\* request zips, optionally sorts, and returns.
ScorerResponds ==
    /\ pc = "scoring"
    /\ \E outputs \in SeqsUpTo(ScorerOutputs, Len(comments) + 1) :
          LET sentiments == process_outputs(scorer_calls[Len(scorer_calls)], outputs)
          IN  /\ n_outputs' = <<Len(outputs)>>
              /\ IF sentiments.ok
                 THEN /\ analyses' = sentiments.value
                      /\ result' = IF sort_by_polarity
                                   THEN SortByPolarity(Responses(comments, sentiments.value))
                                   ELSE Responses(comments, sentiments.value)
                      /\ pc' = "done"
                      /\ UNCHANGED error
                 ELSE /\ pc' = "failed"
                      /\ error' = sentiments.error
                      /\ UNCHANGED <<analyses, result>>
    /\ UNCHANGED <<source, min_datetime, max_datetime, sort_by_polarity,
                   skip, comments, fetches, scorer_calls>>
    /\ UNCHANGED <<analyzerVars, cacheVars, waitVars>>

Init ==
    /\ WaitIdle
    /\ source \in SourcesWithoutRepeats({CreatedAtByRecency})
    /\ min_datetime \in OptionalTimes
    /\ max_datetime \in OptionalTimes
    /\ sort_by_polarity \in BOOLEAN
    /\ StartOfCall
    /\ AnalyzerIdle
    /\ CacheIdle

Next == AnalyzeFetch \/ ScorerResponds

Spec == Init /\ [][Next]_vars

---------------------------------------------------------------------------
(* The sentiment_analysis package called on its own: analyze_sentiment on *)
(* one HTTP response of the model API, Sentiment.from_polarity on a value *)

\* No request of the API is being followed.
CoreIdle ==
    /\ source = <<>>
    /\ min_datetime = None
    /\ max_datetime = None
    /\ sort_by_polarity = FALSE
    /\ pc = "idle"
    /\ skip = 0
    /\ comments = <<>>
    /\ fetches = <<>>
    /\ scorer_calls = <<>>
    /\ n_outputs = None
    /\ analyses = <<>>
    /\ result = <<>>
    /\ error = ""

\* Scores the body may carry: every multiple of 1/ScoreOne from just below 0
\* to just above 1.
RawScores == -1..(ScoreOne + 1)

\* Labels the body may carry: the three required ones and a foreign one.
Labels == RequiredLabels \cup {"LABEL_0"}

Output(ls, ss) == [j \in 1..Len(ls) |-> SentimentScore(ls[j], ss[j])]

CanonicalLabels == <<"positive", "neutral", "negative">>

\* The outputs with the three labels and any scores.
ScoredOutputs == {Output(CanonicalLabels, ss) : ss \in [1..NLABELS -> RawScores]}

\* The outputs of one entry fewer to one entry more than the three labels,
\* with any labels, the j-th entry scored j/ScoreOne.
LabelledOutputs ==
    {Output(ls, [j \in 1..Len(ls) |-> j]) :
        ls \in UNION {[1..n -> Labels] : n \in (NLABELS - 1)..(NLABELS + 1)}}

\* What may follow as a second statement's output: a valid one, one with a
\* duplicated label, one with a score above 1, and the all-zero one.
SecondOutputs ==
    {Output(CanonicalLabels, <<2, 2, 1>>),
     Output(<<"positive", "neutral", "neutral">>, <<2, 2, 1>>),
     Output(CanonicalLabels, <<2, ScoreOne + 1, 1>>),
     Output(CanonicalLabels, <<0, 0, 0>>)}

\* The responses of the model API: status 200 with one or two outputs or
\* none, and the statuses the handler tells apart.
ModelResponses ==
    {[status_code |-> 200, json |-> <<o>>] : o \in ScoredOutputs \cup LabelledOutputs}
    \cup {[status_code |-> 200, json |-> <<o, o2>>] :
              o \in ScoredOutputs \cup LabelledOutputs, o2 \in SecondOutputs}
    \cup {[status_code |-> c, json |-> <<>>] : c \in {200, 400, 404, 500, 418}}

\* The values from_polarity is called with: fractions from -2 to 2.
PolarityInputs ==
    {[num |-> a, den |-> b] : a \in (-2 * ScoreOne)..(2 * ScoreOne), b \in 1..ScoreOne}

InitAnalyzer ==
    /\ WaitIdle
    /\ CoreIdle
    /\ CacheIdle
    /\ outcome = <<>>
    /\ \/ /\ apc = "requesting"
          /\ inputs \in {[k \in 1..n |-> TextOf(k)] : n \in 1..2}
          /\ response \in ModelResponses
          /\ polarity_in = [num |-> 0, den |-> 1]
       \/ /\ apc = "classifying"
          /\ inputs = <<>>
          /\ response = [status_code |-> 0, json |-> <<>>]
          /\ polarity_in \in PolarityInputs

\* analyze_sentiment from the awaited response to its return or raise.
AnalyzeSentiment ==
    /\ apc = "requesting"
    /\ outcome' = <<analyze_sentiment(inputs, response)>>
    /\ apc' = "analyzed"
    /\ UNCHANGED <<inputs, response, polarity_in>>
    /\ UNCHANGED <<coreVars, cacheVars, waitVars>>

\* Sentiment.from_polarity(polarity_in).
FromPolarity ==
    /\ apc = "classifying"
    /\ outcome' = <<from_polarity(polarity_in)>>
    /\ apc' = "classified"
    /\ UNCHANGED <<inputs, response, polarity_in>>
    /\ UNCHANGED <<coreVars, cacheVars, waitVars>>

NextAnalyzer == AnalyzeSentiment \/ FromPolarity

SpecAnalyzer == InitAnalyzer /\ [][NextAnalyzer]_vars

---------------------------------------------------------------------------
(* get_subfeddit_id and the title cache *)

\* _CACHE_MAX_SIZE is 1000 in the source; the model scales it down, like the
\* page size, so that a search can scan more subfeddits than the cache holds.
CACHE_MAX_SIZE == 2

\* Subfeddits there are; the source lists the first few of them.
MaxSubfeddits == 3

\* SubfedditInfo.title: an opaque value per subfeddit, never equal to an id.
TitleOf(k) == <<"title", k>>

Titles == {TitleOf(k) : k \in 1..MaxSubfeddits}

\* SubfedditInfo (username and description play no part).
SubfedditInfo(k) == [id |-> k, title |-> TitleOf(k)]

\* The id the subfeddit titled TitleOf(k) had before it was created anew:
\* an id the source no longer knows.
PreviousId(k) == MaxSubfeddits + k

\* seq without the element x.
RECURSIVE Without(_, _)
Without(seq, x) ==
    IF seq = <<>> THEN <<>>
    ELSE IF Head(seq) = x THEN Without(Tail(seq), x)
         ELSE <<Head(seq)>> \o Without(Tail(seq), x)

\* The cache with the entry of key taken out.
CacheWithout(c, key) ==
    [data |-> [t \in DOMAIN c.data \ {key} |-> c.data[t]],
     lru |-> Without(c.lru, key),
     links |-> Without(c.links, key)]

\* key in subfeddit_cache.
cache_contains(c, key) == key \in DOMAIN c.data

\* subfeddit_cache[key] of a present key: the value is c.data[key], and the
\* key becomes the most recently used one; its time of expiry stays.
cache_getitem(c, key) == [c EXCEPT !.lru = Append(Without(c.lru, key), key)]

\* subfeddit_cache[key] = value: a new key in a full cache first evicts the
\* least recently used entry; the key becomes the most recently used one and
\* the last to expire.
cache_setitem(c, key, value) ==
    LET room == IF key \in DOMAIN c.data \/ Len(c.lru) < CACHE_MAX_SIZE
                THEN c
                ELSE CacheWithout(c, Head(c.lru))
    IN  [data |-> [t \in DOMAIN room.data \cup {key} |->
                      IF t = key THEN value ELSE room.data[t]],
         lru |-> Append(Without(room.lru, key), key),
         links |-> Append(Without(room.links, key), key)]

\* del subfeddit_cache[key]: KeyError for a key that is not (or no longer) in
\* the cache.
cache_delitem(c, key) ==
    IF key \in DOMAIN c.data THEN Ok(CacheWithout(c, key)) ELSE Raise("KeyError")

\* The cache after the entries that expire first, n of them, have expired.
RECURSIVE cache_expire(_, _)
cache_expire(c, n) ==
    IF n = 0 THEN c ELSE cache_expire(CacheWithout(c, Head(c.links)), n - 1)

\* FedditAPIClient.get_subfeddits(skip, limit) against the listing.
get_subfeddits(listing, skp, limit) == Ok(Slice(listing, skp, limit))

\* FedditAPIClient.get_subfeddit_info(subfeddit_id): the source answers 404,
\* which the client raises as NotFoundError, for an id it does not list.
get_subfeddit_info(listing, subfeddit_id) ==
    IF \E j \in 1..Len(listing) : listing[j].id = subfeddit_id
    THEN Ok(subfeddit_id)
    ELSE Raise("NotFoundError")

\* What the client raises when the source fails: the errors of its
\* _handle_response other than NotFoundError.
ClientErrors ==
    {"BadRequestError", "InternalServerError", "UnexpectedError", "ResponseValidationError"}

\* The loop over a batch that writes only the matching pair to the cache.
RECURSIVE ScanBatchCachingMatchOnly(_, _, _)
ScanBatchCachingMatchOnly(c, batch, title) ==
    IF batch = <<>> THEN [cache |-> c, found |-> None, scanned |-> <<>>]
    ELSE IF Head(batch).title = title
         THEN [cache |-> cache_setitem(c, Head(batch).title, Head(batch).id),
               found |-> <<Head(batch).id>>,
               scanned |-> <<Head(batch)>>]
         ELSE LET rest == ScanBatchCachingMatchOnly(c, Tail(batch), title)
              IN  [rest EXCEPT !.scanned = <<Head(batch)>> \o rest.scanned]

\* The loop that writes the whole batch to the cache before it returns the
\* first match.
RECURSIVE ScanBatchToTheEnd(_, _, _)
ScanBatchToTheEnd(c, batch, title) ==
    IF batch = <<>> THEN [cache |-> c, found |-> None, scanned |-> <<>>]
    ELSE LET written == cache_setitem(c, Head(batch).title, Head(batch).id)
             rest == ScanBatchToTheEnd(written, Tail(batch), title)
         IN  IF Head(batch).title = title
             THEN [cache |-> rest.cache,
                   found |-> <<Head(batch).id>>,
                   scanned |-> <<Head(batch)>>]
             ELSE [rest EXCEPT !.scanned = <<Head(batch)>> \o rest.scanned]

\* Lines 59-64: every subfeddit of the batch is written to the cache, in
\* order, up to and including the one whose title matches.
RECURSIVE ScanBatch(_, _, _)
ScanBatch(c, batch, title) ==
    IF batch = <<>> THEN [cache |-> c, found |-> None, scanned |-> <<>>]
    ELSE LET written == cache_setitem(c, Head(batch).title, Head(batch).id)
         IN  IF Head(batch).title = title
             THEN [cache |-> written,
                   found |-> <<Head(batch).id>>,
                   scanned |-> <<Head(batch)>>]
             ELSE LET rest == ScanBatch(written, Tail(batch), title)
                  IN  [rest EXCEPT !.scanned = <<Head(batch)>> \o rest.scanned]

\* The call ends with an exception.
Failed(call, kind) == [call EXCEPT !.pc = "failed", !.error = kind]

\* Lines 52-55: the search starts, or goes on, with a listing at skp.
Listing(call, skp) ==
    [call EXCEPT !.pc = "listing", !.skip = skp, !.listings = Append(@, skp)]

\* The revalidation that evicts the entry on every error of the client.
AfterResolveEvictingOnAnyError(c, call, answer) ==
    IF answer.ok
    THEN [cache |-> c,
          call |-> [call EXCEPT !.pc = "returned", !.returned = call.cached_id]]
    ELSE LET deleted == cache_delitem(c, call.subfeddit_title)
         IN  IF ~deleted.ok
             THEN [cache |-> c, call |-> Failed(call, deleted.error)]
             ELSE IF answer.error = "NotFoundError"
                  THEN [cache |-> deleted.value, call |-> Listing(call, 0)]
                  ELSE [cache |-> deleted.value, call |-> Failed(call, answer.error)]

\* The revalidation that searches whatever the source answered.
AfterResolveSearchingAnyway(c, call, answer) ==
    LET deleted == cache_delitem(c, call.subfeddit_title)
    IN  IF ~deleted.ok
        THEN [cache |-> c, call |-> Failed(call, deleted.error)]
        ELSE [cache |-> deleted.value, call |-> Listing(call, 0)]

\* Lines 41-55 from the answer of get_subfeddit_info on: return the cached
\* id, or on NotFoundError delete the entry and start the search; any other
\* exception leaves the function.
AfterResolve(c, call, answer) ==
    IF answer.ok
    THEN [cache |-> c,
          call |-> [call EXCEPT !.pc = "returned", !.returned = call.cached_id]]
    ELSE IF answer.error = "NotFoundError"
         THEN LET deleted == cache_delitem(c, call.subfeddit_title)
              IN  IF ~deleted.ok
                  THEN [cache |-> c, call |-> Failed(call, deleted.error)]
                  ELSE [cache |-> deleted.value, call |-> Listing(call, 0)]
         ELSE [cache |-> c, call |-> Failed(call, answer.error)]

\* The search that gives up after its first batch, full or not.
AfterListingOnePageOnly(c, call, answer) ==
    IF ~answer.ok THEN [cache |-> c, call |-> Failed(call, answer.error)]
    ELSE LET scan == ScanBatch(c, answer.value, call.subfeddit_title)
             scanning == [call EXCEPT !.seen = @ \o scan.scanned,
                                      !.scanned = scan.scanned]
         IN  [cache |-> scan.cache,
              call |-> IF scan.found # None
                       THEN [scanning EXCEPT !.pc = "returned", !.returned = scan.found]
                       ELSE Failed(scanning, "HTTPException")]

\* Lines 55-73 from the answer of get_subfeddits on: scan the batch, return
\* on a match, raise HTTPException(404) after a short batch, list on
\* otherwise.
AfterListing(c, call, answer) ==
    IF ~answer.ok THEN [cache |-> c, call |-> Failed(call, answer.error)]
    ELSE LET scan == ScanBatch(c, answer.value, call.subfeddit_title)
             scanning == [call EXCEPT !.seen = @ \o scan.scanned,
                                      !.scanned = scan.scanned]
         IN  [cache |-> scan.cache,
              call |-> IF scan.found # None
                       THEN [scanning EXCEPT !.pc = "returned", !.returned = scan.found]
                       ELSE IF Len(answer.value) < QUERY_BATCH_SIZE
                            THEN Failed(scanning, "HTTPException")
                            ELSE Listing(scanning, call.skip + QUERY_BATCH_SIZE)]

\* The history a resumed call adds to its record: the answer it was resumed
\* with, and whether it found the cache as it had left it.
Resumed(call, answer) ==
    [call EXCEPT !.answers = Append(@, IF answer.ok THEN "ok" ELSE answer.error),
                 !.undisturbed = @ /\ subfeddit_cache = call.left]

\* Lines 36-41 and 52-55: get_subfeddit_id(title) up to its first await.  A
\* cached title is read and sent to the source for revalidation; without an
\* entry the search starts.
GetSubfedditId(r, title) ==
    /\ calls[r].pc = "idle"
    /\ LET call == [calls[r] EXCEPT !.subfeddit_title = title]
       IN  IF cache_contains(subfeddit_cache, title)
           THEN /\ subfeddit_cache' = cache_getitem(subfeddit_cache, title)
                /\ calls' = [calls EXCEPT ![r] =
                       [call EXCEPT !.pc = "resolving",
                                    !.cached_id = <<subfeddit_cache.data[title]>>,
                                    !.resolves = <<subfeddit_cache.data[title]>>,
                                    !.left = subfeddit_cache']]
           ELSE /\ UNCHANGED subfeddit_cache
                /\ calls' = [calls EXCEPT ![r] =
                       [Listing(call, 0) EXCEPT !.left = subfeddit_cache]]
    /\ UNCHANGED <<subfeddits, coreVars, analyzerVars, waitVars>>

\* The awaited get_subfeddit_info has answered, or failed, and the call runs
\* on to its return, its raise, or the await of the first listing.
ResolveReturns(r) ==
    /\ calls[r].pc = "resolving"
    /\ \E answer \in {get_subfeddit_info(subfeddits, calls[r].cached_id[1])}
                          \cup {Raise(e) : e \in ClientErrors} :
          LET after == AfterResolve(subfeddit_cache, Resumed(calls[r], answer), answer)
          IN  /\ subfeddit_cache' = after.cache
              /\ calls' = [calls EXCEPT ![r] = [after.call EXCEPT !.left = after.cache]]
    /\ UNCHANGED <<subfeddits, coreVars, analyzerVars, waitVars>>

\* The awaited get_subfeddits has answered, or failed, and the call runs on
\* to its return, its raise, or the await of the next listing.
ListReturns(r) ==
    /\ calls[r].pc = "listing"
    /\ \E answer \in {get_subfeddits(subfeddits, calls[r].skip, QUERY_BATCH_SIZE)}
                          \cup {Raise(e) : e \in ClientErrors \cup {"NotFoundError"}} :
          LET after == AfterListing(subfeddit_cache, Resumed(calls[r], answer), answer)
          IN  /\ subfeddit_cache' = after.cache
              /\ calls' = [calls EXCEPT ![r] = [after.call EXCEPT !.left = after.cache]]
    /\ UNCHANGED <<subfeddits, coreVars, analyzerVars, waitVars>>

\* While a call awaits the source, time passes: the entries whose time has
\* come, those written longest ago, expire.
Expire ==
    /\ \E r \in Reqs : calls[r].pc \in {"resolving", "listing"}
    /\ \E n \in 1..Len(subfeddit_cache.links) :
          subfeddit_cache' = cache_expire(subfeddit_cache, n)
    /\ UNCHANGED <<subfeddits, calls, coreVars, analyzerVars, waitVars>>

\* What the source lists: the first n subfeddits, each under its current id.
Listings == {[j \in 1..n |-> SubfedditInfo(j)] : n \in 0..MaxSubfeddits}

\* The caches earlier requests may have left behind: up to CACHE_MAX_SIZE
\* titles in any order of use, each with the current id of its subfeddit or
\* with the id it had before.
WarmCaches ==
    {[data |-> [t \in {TitleOf(order[j]) : j \in 1..Len(order)} |->
                   IF t[2] \in stale THEN PreviousId(t[2]) ELSE t[2]],
      lru |-> [j \in 1..Len(order) |-> TitleOf(order[j])],
      links |-> [j \in 1..Len(order) |-> TitleOf(order[j])]] :
        order \in {o \in SeqsUpTo(1..MaxSubfeddits, CACHE_MAX_SIZE) :
                      \A i, j \in 1..Len(o) : i # j => o[i] # o[j]},
        stale \in SUBSET (1..MaxSubfeddits)}

InitCache ==
    /\ WaitIdle
    /\ CoreIdle
    /\ AnalyzerIdle
    /\ subfeddits \in Listings
    /\ subfeddit_cache \in WarmCaches
    /\ calls = [r \in Reqs |-> IdleCall]

\* One request calls get_subfeddit_id, for any title, while the entries of
\* the cache may expire; the other request stays idle.
NextCache ==
    \/ \E title \in Titles : GetSubfedditId("r1", title)
    \/ ResolveReturns("r1")
    \/ ListReturns("r1")
    \/ Expire

SpecCache == InitCache /\ [][NextCache]_vars

\* The same under fairness: the event loop resumes the call once the source
\* has answered the request it awaits.
SpecCacheFair ==
    /\ InitCache
    /\ [][NextCache]_vars
    /\ WF_vars(ResolveReturns("r1"))
    /\ WF_vars(ListReturns("r1"))

\* Listings in which the title of the first subfeddit comes again, under
\* another id, as the last entry.
RepeatedListings ==
    {[j \in 1..n |-> IF j = n THEN [id |-> n, title |-> TitleOf(1)] ELSE SubfedditInfo(j)] :
        n \in 2..MaxSubfeddits}

InitSearch ==
    /\ WaitIdle
    /\ CoreIdle
    /\ AnalyzerIdle
    /\ subfeddits \in Listings \cup RepeatedListings
    /\ subfeddit_cache \in WarmCaches
    /\ calls = [r \in Reqs |-> IdleCall]

\* One request over every listing, those that repeat a title included.
SpecSearch == InitSearch /\ [][NextCache]_vars

\* Two requests call get_subfeddit_id on the one event loop: each runs from
\* await to await, and either may be the one resumed next.
NextShared ==
    \E r \in Reqs :
        \/ \E title \in Titles : GetSubfedditId(r, title)
        \/ ResolveReturns(r)
        \/ ListReturns(r)

SpecShared == InitCache /\ [][NextShared]_vars

---------------------------------------------------------------------------
(* _handle_response of the two clients *)

\* A JSON value with its type: an integer, a string, or null.
JsonInt(n) == <<"int", n>>

JsonStr(x) == <<"str", x>>

JsonNull == <<"null">>

\* SubfedditResponse.model_validate(content) for a JSON object: the required
\* fields must be there with values of their types (of the fields, id and
\* title are modelled).
SubfedditResponse_model_validate(content) ==
    IF /\ "id" \in DOMAIN content
       /\ "title" \in DOMAIN content
       /\ content["id"][1] = "int"
       /\ content["title"][1] = "str"
    THEN Ok([id |-> content["id"][2], title |-> content["title"][2]])
    ELSE Raise("ValidationError")

\* _handle_response of the Feddit client, for model SubfedditResponse.
feddit_handle_response(resp) ==
    CASE resp.status_code = 200 ->
            LET validated == SubfedditResponse_model_validate(resp.json)
            IN  IF validated.ok THEN validated
                ELSE IF validated.error = "ValidationError"
                     THEN Raise("ResponseValidationError")
                     ELSE validated
      [] resp.status_code = 400 -> Raise("BadRequestError")
      [] resp.status_code = 404 -> Raise("NotFoundError")
      [] resp.status_code = 500 -> Raise("InternalServerError")
      [] OTHER -> Raise("UnexpectedError")

\* The statuses a collaborator answers with: the four the clients tell
\* apart, and others on either side of them.
StatusCodes == {200, 201, 302, 400, 404, 418, 500, 503}

\* Bodies of the subfeddit endpoint: the object of a subfeddit, and objects
\* that lack a required field or hold null in it.
SubfedditBodies ==
    {[id |-> JsonInt(k), title |-> JsonStr(TitleOf(k))] : k \in 1..MaxSubfeddits}
    \cup {[title |-> JsonStr(TitleOf(k))] : k \in 1..MaxSubfeddits}
    \cup {[id |-> JsonInt(k)] : k \in 1..MaxSubfeddits}
    \cup {[id |-> JsonNull, title |-> JsonStr(TitleOf(k))] : k \in 1..MaxSubfeddits}
    \cup {[id |-> JsonInt(k), title |-> JsonNull] : k \in 1..MaxSubfeddits}

FedditResponses == [status_code : StatusCodes, json : SubfedditBodies]

\* Responses of the model API under every status, with one output each.
StatusModelResponses ==
    [status_code : StatusCodes, json : {<<o>> : o \in ScoredOutputs \cup LabelledOutputs}]

InitClients ==
    /\ WaitIdle
    /\ CoreIdle
    /\ CacheIdle
    /\ outcome = <<>>
    /\ polarity_in = [num |-> 0, den |-> 1]
    /\ \/ /\ apc = "requesting"
          /\ inputs = <<TextOf(1)>>
          /\ response \in StatusModelResponses
       \/ /\ apc = "receiving"
          /\ inputs = <<>>
          /\ response \in FedditResponses

\* get_subfeddit_info from the awaited response to its return or raise.
HandleFedditResponse ==
    /\ apc = "receiving"
    /\ outcome' = <<feddit_handle_response(response)>>
    /\ apc' = "received"
    /\ UNCHANGED <<inputs, response, polarity_in>>
    /\ UNCHANGED <<coreVars, cacheVars, waitVars>>

NextClients == AnalyzeSentiment \/ HandleFedditResponse

SpecClients == InitClients /\ [][NextClients]_vars

---------------------------------------------------------------------------
(* The wait-api script *)

\* The --retries values the script is run with: none or fewer, up to
\* MaxRetries.
MaxRetries == 3

\* FedditAPIClient.VALID_VERSIONS.
VALID_VERSIONS == {"0.1.0"}

\* What requests.get comes to: it raises (no connection, timeout), or it
\* returns a response: one of an error status, or one of status 200 whose
\* body reports a supported version, reports another version, or has no
\* version field.
VersionAnswers ==
    {Raise("ConnectionError"), Raise("Timeout")}
    \cup {Ok([status_code |-> c, json |-> [detail |-> "error"]]) : c \in {404, 503}}
    \cup {Ok([status_code |-> 200, json |-> [version |-> v]]) : v \in VALID_VERSIONS \cup {"0.2.0"}}
    \cup {Ok([status_code |-> 200, json |-> [ver |-> "0.1.0"]])}

\* response.raise_for_status(): HTTPError for a status from 400 to 599.
raise_for_status(resp) ==
    IF 400 <= resp.status_code /\ resp.status_code <= 599 THEN Raise("HTTPError") ELSE Ok(resp)

\* VersionResponse.model_validate(content): the version field is required.
VersionResponse_model_validate(content) ==
    IF "version" \in DOMAIN content THEN Ok(content["version"]) ELSE Raise("ValidationError")

\* Lines 35-38: the body of the try up to the version, or the exception
\* that ends it.
RequestVersion(answer) ==
    IF ~answer.ok THEN answer
    ELSE LET checked == raise_for_status(answer.value)
         IN  IF ~checked.ok THEN checked
             ELSE VersionResponse_model_validate(checked.value.json)

\* Line 47: the exceptions of requests, HTTPError among them, are caught.
IsRequestException(kind) == kind \in {"ConnectionError", "Timeout", "HTTPError"}

\* Lines 32-50: one pass of the loop.  A version, supported or not, ends the
\* script with status 0; an exception of the request is counted and the
\* loop goes on after the wait; any other exception leaves the script, which
\* the interpreter ends with status 1.
WaitApiAttempt ==
    /\ wpc = "waiting"
    /\ attempts < retries
    /\ \E answer \in VersionAnswers :
          LET version == RequestVersion(answer)
          IN  /\ version_requests' = Append(version_requests, answer)
              /\ IF version.ok
                 THEN /\ wpc' = "exited"
                      /\ exit_code' = <<0>>
                      /\ UNCHANGED attempts
                 ELSE IF IsRequestException(version.error)
                      THEN /\ attempts' = attempts + 1
                           /\ UNCHANGED <<wpc, exit_code>>
                      ELSE /\ wpc' = "raised"
                           /\ exit_code' = <<1>>
                           /\ UNCHANGED attempts
    /\ UNCHANGED retries
    /\ UNCHANGED <<coreVars, analyzerVars, cacheVars>>

\* Lines 32 and 52-53: the loop is over, or never entered, and the script
\* exits with status 1.
WaitApiGivesUp ==
    /\ wpc = "waiting"
    /\ attempts >= retries
    /\ wpc' = "exited"
    /\ exit_code' = <<1>>
    /\ UNCHANGED <<retries, attempts, version_requests>>
    /\ UNCHANGED <<coreVars, analyzerVars, cacheVars>>

InitWait ==
    /\ CoreIdle
    /\ AnalyzerIdle
    /\ CacheIdle
    /\ wpc = "waiting"
    /\ retries \in -1..MaxRetries
    /\ attempts = 0
    /\ version_requests = <<>>
    /\ exit_code = None

NextWait == WaitApiAttempt \/ WaitApiGivesUp

SpecWait == InitWait /\ [][NextWait]_vars

---------------------------------------------------------------------------
(* analyze_comments_sentiment with collaborators that may fail *)

\* What the scorer raises when the model API fails: the errors of the
\* analyzer's _handle_response for the statuses it tells apart and for a
\* body that does not validate.
ScorerErrors ==
    {handle_response([status_code |-> c, json |-> <<>>]).error : c \in {400, 404, 500, 418}}
    \cup {handle_response([status_code |-> 200,
                           json |-> <<Output(CanonicalLabels, <<-1, 0, 0>>)>>]).error}

\* An awaited call that swallows the exception: the request ends as if it
\* had nothing to return.
RaisedSwallowed(kind) == [pc |-> "done", error |-> ""]

\* An exception raised by an awaited call: neither _get_all_comments nor
\* analyze_comments_sentiment has a try around its awaits, so the exception
\* leaves the request as it is.
Raised(kind) == [pc |-> "failed", error |-> kind]

\* Line 157: the awaited get_subfeddit_comments raises.
FetchFails ==
    /\ pc = "fetching"
    /\ \E kind \in ClientErrors \cup {"NotFoundError"} :
          /\ pc' = Raised(kind).pc
          /\ error' = Raised(kind).error
    /\ UNCHANGED <<source, min_datetime, max_datetime, sort_by_polarity, skip, comments,
                   fetches, scorer_calls, n_outputs, analyses, result>>
    /\ UNCHANGED <<analyzerVars, cacheVars, waitVars>>

\* Line 107: the awaited analyze_sentiment raises before it has outputs.
ScorerFails ==
    /\ pc = "scoring"
    /\ \E kind \in ScorerErrors :
          /\ pc' = Raised(kind).pc
          /\ error' = Raised(kind).error
    /\ UNCHANGED <<source, min_datetime, max_datetime, sort_by_polarity, skip, comments,
                   fetches, scorer_calls, n_outputs, analyses, result>>
    /\ UNCHANGED <<analyzerVars, cacheVars, waitVars>>

NextFailing == AnalyzeFetch \/ ScorerResponds \/ FetchFails \/ ScorerFails

SpecFailing == Init /\ [][NextFailing]_vars

---------------------------------------------------------------------------
(* The request models of the two comment endpoints *)

\* The validator that also rejects a window of one instant.
validate_min_max_datetime_rejecting_equal(mn, mx) ==
    IF mn # None /\ mx # None /\ mn[1] >= mx[1]
    THEN Raise("ValueError")
    ELSE Ok([min_datetime |-> mn, max_datetime |-> mx])

\* validate_min_max_datetime, the model validator (mode "after") that both
\* request models define with the same body: ValueError when both bounds are
\* given and min_datetime > max_datetime, the request itself otherwise.
validate_min_max_datetime(mn, mx) ==
    IF mn # None /\ mx # None /\ mn[1] > mx[1]
    THEN Raise("ValueError")
    ELSE Ok([min_datetime |-> mn, max_datetime |-> mx])

\* Validation of a request body against its model: pydantic turns the
\* ValueError of a validator into a validation error, with which the request
\* is rejected before the endpoint function is called.
RequestModel(mn, mx) ==
    LET validated == validate_min_max_datetime(mn, mx)
    IN  IF validated.ok THEN validated ELSE Raise("ValidationError")

\* CommentSentimentIDRequest, the body of classify_comments/subfeddit_id.
CommentSentimentIDRequest(mn, mx) == RequestModel(mn, mx)

\* CommentSentimentRequest, the body of classify_comments/subfeddit_title.
CommentSentimentRequest(mn, mx) == RequestModel(mn, mx)

Endpoints == {"subfeddit_id", "subfeddit_title"}

\* A request arrives at one of the two endpoints and its body is validated.
\* A rejected request ends there.  An accepted request for an id goes on
\* into analyze_comments_sentiment with the bounds of the request; an
\* accepted request for a title goes on into get_subfeddit_id, where this
\* specification leaves it (pc "titled").
ValidateRequest ==
    /\ pc = "validating"
    /\ \E endpoint \in Endpoints :
          LET request == IF endpoint = "subfeddit_id"
                         THEN CommentSentimentIDRequest(min_datetime, max_datetime)
                         ELSE CommentSentimentRequest(min_datetime, max_datetime)
          IN  IF ~request.ok
              THEN pc' = "failed" /\ error' = request.error
              ELSE /\ pc' = IF endpoint = "subfeddit_id" THEN "fetching" ELSE "titled"
                   /\ UNCHANGED error
    /\ UNCHANGED <<source, min_datetime, max_datetime, sort_by_polarity, skip, comments,
                   fetches, scorer_calls, n_outputs, analyses, result>>
    /\ UNCHANGED <<analyzerVars, cacheVars, waitVars>>

InitRequest ==
    /\ WaitIdle
    /\ source \in SourcesWithoutRepeats({CreatedAtByRecency})
    /\ min_datetime \in OptionalTimes
    /\ max_datetime \in OptionalTimes
    /\ sort_by_polarity \in BOOLEAN
    /\ pc = "validating"
    /\ skip = 0
    /\ comments = <<>>
    /\ fetches = <<>>
    /\ scorer_calls = <<>>
    /\ n_outputs = None
    /\ analyses = <<>>
    /\ result = <<>>
    /\ error = ""
    /\ AnalyzerIdle
    /\ CacheIdle

NextRequest == ValidateRequest \/ AnalyzeFetch \/ ScorerResponds

SpecRequest == InitRequest /\ [][NextRequest]_vars

---------------------------------------------------------------------------
(* What the claims about _get_all_comments speak of *)

\* The positions of the source rows that lie in the requested range, written
\* out from the request's bounds.
QualifyingRows ==
    {k \in 1..Len(source) :
        /\ (min_datetime = None \/ min_datetime[1] <= source[k].created_at)
        /\ (max_datetime = None \/ source[k].created_at <= max_datetime[1])}

QualifyingComments == {source[k] : k \in QualifyingRows}

DistinctIds ==
    \A j, k \in 1..Len(source) : j # k => source[j].id # source[k].id

DistinctCreatedAt ==
    \A j, k \in 1..Len(source) : j # k => source[j].created_at # source[k].created_at

Min(a, b) == IF a < b THEN a ELSE b

WindowIds == [i \in 1..Len(comments) |-> comments[i].id]

\* The scenario of the specification's example, for a window of QUERY_LIMIT:
\* ids 1..QUERY_LIMIT+1 in id order, created_at rising with the id except for
\* the last id, which is the oldest ([100,200,300,50] for QUERY_LIMIT = 3).
ExampleSource ==
    [k \in 1..(QUERY_LIMIT + 1) |->
        CommentInfo(k, IF k = QUERY_LIMIT + 1 THEN 1 ELSE k + 1)]

\* C1: for a source with distinct ids and distinct created_at, whatever its
\* order, _get_all_comments returns exactly the min(QUERY_LIMIT, n) most
\* recent of the n qualifying comments, newest first; in the example scenario
\* it returns ids QUERY_LIMIT, ..., 2, 1.
C1_MostRecentDescending ==
    (pc = "returned" /\ DistinctIds /\ DistinctCreatedAt) =>
        /\ Len(comments) = Min(QUERY_LIMIT, Cardinality(QualifyingComments))
        /\ \A i \in 1..Len(comments) : comments[i] \in QualifyingComments
        /\ \A i \in 1..(Len(comments) - 1) :
              comments[i].created_at > comments[i + 1].created_at
        /\ \A q \in QualifyingComments :
              (\A i \in 1..Len(comments) : comments[i] # q) =>
                  \A i \in 1..Len(comments) : q.created_at < comments[i].created_at
        /\ (source = ExampleSource /\ min_datetime = None /\ max_datetime = None) =>
              WindowIds = [i \in 1..QUERY_LIMIT |-> QUERY_LIMIT + 1 - i]

\* A source of more qualifying comments than the window holds, spread over
\* two pages, not already in window order, has been merged.
C1_Witness ==
    /\ pc = "returned"
    /\ DistinctIds /\ DistinctCreatedAt
    /\ Cardinality(QualifyingComments) > QUERY_LIMIT
    /\ Len(fetches) >= 2
    /\ source[Len(source)] \in {comments[i] : i \in 1..Len(comments)}
    /\ source[1].created_at < source[2].created_at

\* C3: every comment of the window lies in [min_datetime, max_datetime] for
\* each bound given, after every batch and at return; the bounds are
\* inclusive: when all qualifying rows fit the window, every row whose
\* created_at satisfies min <= created_at <= max is in the returned window.
C3_TimeFilter ==
    /\ \A i \in 1..Len(comments) :
          /\ (min_datetime # None => min_datetime[1] <= comments[i].created_at)
          /\ (max_datetime # None => comments[i].created_at <= max_datetime[1])
    /\ (pc = "returned" /\ Cardinality(QualifyingRows) <= QUERY_LIMIT) =>
          \A k \in QualifyingRows : \E i \in 1..Len(comments) : comments[i] = source[k]

\* A returned window holds a comment lying exactly on a bound while the
\* source also held comments outside the range.
C3_Witness ==
    /\ pc = "returned"
    /\ min_datetime # None /\ max_datetime # None
    /\ \E i \in 1..Len(comments) : comments[i].created_at = min_datetime[1]
    /\ \E i \in 1..Len(comments) : comments[i].created_at = max_datetime[1]
    /\ Cardinality(QualifyingRows) < Len(source)

\* C4 (as claimed): the returned window holds each comment id at most once,
\* also when the source delivers an id more than once.
C4_NoDuplicateIds ==
    pc = "returned" =>
        \A i, j \in 1..Len(comments) : i # j => comments[i].id # comments[j].id

\* Every way of cutting rest into non-empty batches, fed through the merge
\* step starting from window w: the set of final windows.
RECURSIVE ChunkedWindows(_, _)
ChunkedWindows(w, rest) ==
    IF rest = <<>> THEN {w}
    ELSE UNION {ChunkedWindows(
                    MergeBatch(w, SubSeq(rest, 1, k), min_datetime, max_datetime),
                    SubSeq(rest, k + 1, Len(rest))) : k \in 1..Len(rest)}

\* C5: for a source with distinct ids and distinct created_at, every way of
\* cutting the rows into batches (one batch, one row per batch, anything in
\* between) ends in the window the paginated loop returns.
C5_PartitionInvariance ==
    (pc = "returned" /\ DistinctIds /\ DistinctCreatedAt) =>
        ChunkedWindows(<<>>, source) = {comments}

\* A truncating, reordering, multi-page retrieval has returned.
C5_Witness ==
    /\ pc = "returned"
    /\ DistinctIds /\ DistinctCreatedAt
    /\ Len(source) = MaxComments
    /\ Len(fetches) >= 2
    /\ Len(comments) = QUERY_LIMIT
    /\ Cardinality(QualifyingRows) > QUERY_LIMIT

\* The fetch history is skip = 0, B, 2B, ... with limit B, and only the last
\* fetch, the one the loop stopped at, received fewer than B rows.
FetchHistoryOk ==
    /\ \A j \in 1..Len(fetches) :
          /\ fetches[j][1] = (j - 1) * QUERY_BATCH_SIZE
          /\ fetches[j][2] = QUERY_BATCH_SIZE
          /\ fetches[j][3] = Len(Slice(source, fetches[j][1], QUERY_BATCH_SIZE))
          /\ j < Len(fetches) => fetches[j][3] = QUERY_BATCH_SIZE
    /\ pc = "fetching" =>
          \A j \in 1..Len(fetches) : fetches[j][3] = QUERY_BATCH_SIZE
    /\ pc = "returned" =>
          /\ fetches # <<>>
          /\ fetches[Len(fetches)][3] < QUERY_BATCH_SIZE

---------------------------------------------------------------------------
(* What the claims about analyze_comments_sentiment speak of *)

\* C2: the window holds at most QUERY_LIMIT entries after every batch and at
\* return; when the source holds fewer than QUERY_LIMIT qualifying comments
\* the final window has exactly that many entries; and the list
\* analyze_comments_sentiment returns never has more than QUERY_LIMIT entries.
C2_WindowBounded ==
    /\ Len(comments) <= QUERY_LIMIT
    /\ Len(result) <= QUERY_LIMIT
    /\ (pc # "fetching" /\ Cardinality(QualifyingRows) < QUERY_LIMIT) =>
          Len(comments) = Cardinality(QualifyingRows)

\* A request over more qualifying rows than the window holds has returned a
\* full list.
C2_Witness ==
    /\ pc = "done"
    /\ Cardinality(QualifyingRows) > QUERY_LIMIT
    /\ Len(comments) = QUERY_LIMIT
    /\ Len(result) = QUERY_LIMIT

\* All pages of the source have been fetched: the last fetch came back short.
PaginationFinished ==
    /\ Len(fetches) = (Len(source) \div QUERY_BATCH_SIZE) + 1
    /\ fetches[Len(fetches)][3] < QUERY_BATCH_SIZE

\* C7: when no row of the source lies in the requested range (empty source
\* or everything filtered out), the request ends with the empty list and no
\* error as soon as pagination has finished, and the scorer is never called.
C7_EmptyResult ==
    QualifyingRows = {} =>
        /\ scorer_calls = <<>>
        /\ n_outputs = None
        /\ error = ""
        /\ result = <<>>
        /\ pc \in {"fetching", "done"}
        /\ (fetches # <<>> /\ PaginationFinished) => pc = "done"

\* A request whose source held rows, all of them outside the range, is done.
C7_Witness ==
    /\ pc = "done"
    /\ source # <<>>
    /\ Len(fetches) >= 2
    /\ QualifyingRows = {}
    /\ result = <<>>

\* C8: a request with at least one qualifying row calls the scorer exactly
\* once, not before every page has been fetched, with the texts of all
\* comments of the final window in window order (newest first).
C8_ScorerCalledOnce ==
    /\ Len(scorer_calls) <= 1
    /\ (pc # "fetching" /\ QualifyingRows # {}) => Len(scorer_calls) = 1
    /\ scorer_calls # <<>> =>
          /\ PaginationFinished
          /\ Len(scorer_calls[1]) = Min(QUERY_LIMIT, Cardinality(QualifyingRows))
          /\ scorer_calls[1] = [i \in 1..Len(comments) |-> TextOf(comments[i].id)]
          /\ \A i \in 1..(Len(comments) - 1) :
                comments[i].created_at >= comments[i + 1].created_at

\* A request whose window was filled over two pages has been scored.
C8_Witness ==
    /\ pc = "done"
    /\ Len(fetches) >= 2
    /\ Len(scorer_calls) = 1
    /\ Len(scorer_calls[1]) = QUERY_LIMIT
    /\ scorer_calls[1][1] # scorer_calls[1][2]
    /\ Len(result) = QUERY_LIMIT

\* C9 (as claimed): a scorer response whose number of outputs differs from
\* the number of texts sent makes the request fail with ResponseMismatchError.
C9_MismatchFails ==
    (n_outputs # None /\ n_outputs[1] # Len(scorer_calls[1])) =>
        /\ pc = "failed"
        /\ error = "ResponseMismatchError"

\* The scored list in recency order, before any sort by polarity.
RecencyOrdered == Responses(comments, analyses)

Permutations(n) ==
    {f \in [1..n -> 1..n] : \A i, j \in 1..n : i # j => f[i] # f[j]}

SamePolarity(a, b) == PolarityGeq(a, b) /\ PolarityGeq(b, a)

\* C10: with sort_by_polarity the result is the stable descending sort by
\* polarity of the recency-ordered scored list: polarities never increase, the
\* result is a permutation of that list, and entries of equal polarity keep
\* their recency order; polarities [0.2, 0.8] for recency-ordered ids [1, 2]
\* give ids [2, 1].
C10_SortedByPolarity ==
    (pc = "done" /\ sort_by_polarity /\ scorer_calls # <<>>) =>
        /\ \A i \in 1..(Len(result) - 1) :
              PolarityGeq(result[i].polarity, result[i + 1].polarity)
        /\ Len(result) = Len(RecencyOrdered)
        /\ \E f \in Permutations(Len(result)) :
              /\ \A i \in 1..Len(result) : result[i] = RecencyOrdered[f[i]]
              /\ \A i, j \in 1..Len(result) :
                    (i < j /\ SamePolarity(result[i].polarity, result[j].polarity)) =>
                        f[i] < f[j]
        /\ (/\ WindowIds = <<1, 2>>
            /\ Len(analyses) = 2
            /\ analyses[1].polarity = [num |-> 1, den |-> 5]
            /\ analyses[2].polarity = [num |-> 4, den |-> 5]) =>
              [i \in 1..Len(result) |-> result[i].comment_id] = <<2, 1>>

\* The example: recency-ordered ids [1, 2] scored 0.2 and 0.8 came back as
\* [2, 1].
C10_Witness ==
    /\ pc = "done"
    /\ sort_by_polarity
    /\ WindowIds = <<1, 2>>
    /\ Len(result) = 2
    /\ result[1].comment_id = 2
    /\ result[1].polarity = [num |-> 4, den |-> 5]
    /\ result[2].polarity = [num |-> 1, den |-> 5]

\* C11: without sort_by_polarity the i-th entry of the result carries the id
\* and text of the i-th comment of the window and the polarity and
\* classification of the i-th analysis the scorer returned (the one made for
\* that comment's text), so the result is in created_at-descending order.
C11_PositionalPairing ==
    (pc = "done" /\ ~sort_by_polarity /\ scorer_calls # <<>>) =>
        /\ Len(result) = Min(Len(comments), Len(analyses))
        /\ \A i \in 1..Len(result) :
              /\ result[i].comment_id = comments[i].id
              /\ result[i].comment = comments[i].text
              /\ result[i].polarity = analyses[i].polarity
              /\ result[i].classification = analyses[i].sentiment
              /\ analyses[i].statement = comments[i].text
        /\ \A i \in 1..(Len(result) - 1) :
              CreatedAtByRecency[result[i].comment_id]
                  >= CreatedAtByRecency[result[i + 1].comment_id]

\* An unsorted result of two comments whose polarities rise down the list, so
\* that neither a sort nor a reversed pairing would have given it.
C11_Witness ==
    /\ pc = "done"
    /\ ~sort_by_polarity
    /\ Len(result) = 2
    /\ result[1].comment_id = comments[1].id
    /\ result[1].polarity = [num |-> -4, den |-> 5]
    /\ result[2].polarity = [num |-> 4, den |-> 5]
    /\ result[1].classification = "negative"

---------------------------------------------------------------------------
(* What the claims about the sentiment_analysis package speak of *)

\* The outputs of the response that pass both validators of ModelResponse,
\* by position.
ValidOutputs ==
    {k \in 1..Len(response.json) :
        /\ Len(response.json[k]) = NLABELS
        /\ {response.json[k][j].label : j \in 1..NLABELS} = RequiredLabels
        /\ \A j \in 1..NLABELS :
              0 <= response.json[k][j].score /\ response.json[k][j].score <= ScoreOne}

\* The score the k-th output gives to label l.
ScoreOf(k, l) ==
    LET j == CHOOSE i \in 1..Len(response.json[k]) : response.json[k][i].label = l
    IN  response.json[k][j].score

\* The analyses of a call that returned.
Analyzed == IF apc = "analyzed" /\ outcome[1].ok THEN outcome[1].value ELSE <<>>

InRange == -polarity_in.den <= polarity_in.num /\ polarity_in.num <= polarity_in.den

\* C13: for every polarity in [-1, 1] from_polarity returns positive exactly
\* when polarity >= 0 (0 included) and negative otherwise, and every analysis
\* analyze_sentiment returns has the sentiment this rule gives its polarity.
C13_Classification ==
    /\ (apc = "classified" /\ InRange) =>
          /\ outcome[1].ok
          /\ outcome[1].value = "positive" <=> polarity_in.num >= 0
          /\ outcome[1].value = "negative" <=> polarity_in.num < 0
    /\ \A k \in 1..Len(Analyzed) :
          /\ -Analyzed[k].polarity.den <= Analyzed[k].polarity.num
          /\ Analyzed[k].polarity.num <= Analyzed[k].polarity.den
          /\ Analyzed[k].sentiment = "positive" <=> Analyzed[k].polarity.num >= 0
          /\ Analyzed[k].sentiment = "negative" <=> Analyzed[k].polarity.num < 0

\* The polarity 0 has been classified, as positive.
C13_Witness ==
    /\ apc = "classified"
    /\ polarity_in.num = 0
    /\ outcome = <<Ok("positive")>>

\* C14 (as claimed): a valid response in which a statement's three scores
\* are all zero makes analyze_sentiment fail with DegenerateScoreError.
C14_DegenerateScoreError ==
    (/\ apc = "analyzed"
     /\ response.status_code = 200
     /\ ValidOutputs = 1..Len(response.json)
     /\ \E k \in 1..Min(Len(inputs), Len(response.json)) :
           \A l \in RequiredLabels : ScoreOf(k, l) = 0) =>
        /\ ~outcome[1].ok
        /\ outcome[1].error = "DegenerateScoreError"

\* The outputs whose scores all lie in [0, 1] but whose labels are not exactly
\* the three required ones, by position.
BadlyLabelledOutputs ==
    {k \in 1..Len(response.json) :
        \/ Len(response.json[k]) # NLABELS
        \/ {response.json[k][j].label : j \in 1..Len(response.json[k])} # RequiredLabels}

ScoresInRange ==
    \A k \in 1..Len(response.json) : \A j \in 1..Len(response.json[k]) :
        0 <= response.json[k][j].score /\ response.json[k][j].score <= ScoreOne

\* C15 (as claimed): a response with an output that does not consist of
\* exactly the three distinct labels is rejected with ResponseValidationError.
C15_LabelsRejectedTyped ==
    (/\ apc = "analyzed"
     /\ response.status_code = 200
     /\ ScoresInRange
     /\ BadlyLabelledOutputs # {}) =>
        outcome = <<Raise("ResponseValidationError")>>

\* C16: a response with any score outside [0, 1] makes analyze_sentiment fail
\* with ResponseValidationError, returning no analysis; a response whose
\* outputs are valid, scores of exactly 0 and exactly 1 included, is not
\* rejected: it returns one analysis per pair of statement and output unless
\* an output is all zero.
C16_ScoreRange ==
    (apc = "analyzed" /\ response.status_code = 200) =>
        /\ ~ScoresInRange => outcome = <<Raise("ResponseValidationError")>>
        /\ ValidOutputs = 1..Len(response.json) =>
              \/ /\ outcome[1].ok
                 /\ Len(outcome[1].value) = Min(Len(inputs), Len(response.json))
              \/ /\ ~outcome[1].ok
                 /\ outcome[1].error = "ZeroDivisionError"
                 /\ \E k \in 1..Len(response.json) :
                       \A l \in RequiredLabels : ScoreOf(k, l) = 0

\* A response whose first output is valid, with scores of exactly 1 and 0,
\* and whose second output has a score above 1 has been rejected.
C16_Witness ==
    /\ apc = "analyzed"
    /\ Len(response.json) = 2
    /\ ValidOutputs = {1}
    /\ ScoreOf(1, "positive") = ScoreOne
    /\ ScoreOf(1, "negative") = 0
    /\ BadlyLabelledOutputs = {}
    /\ outcome = <<Raise("ResponseValidationError")>>

\* C17: from_polarity raises InvalidPolarityError carrying the value for
\* every polarity outside [-1, 1] and returns a classification for every
\* polarity inside, the endpoints -1 and 1 included.
C17_InvalidPolarity ==
    apc = "classified" =>
        IF InRange
        THEN outcome[1].ok /\ outcome[1].value \in {"positive", "negative"}
        ELSE /\ ~outcome[1].ok
             /\ outcome[1].error = "InvalidPolarityError"
             /\ outcome[1].polarity = polarity_in

\* The polarity just above 1 has been refused, the exception carrying it.
C17_Witness ==
    /\ apc = "classified"
    /\ polarity_in = [num |-> ScoreOne + 1, den |-> ScoreOne]
    /\ ~outcome[1].ok
    /\ outcome[1].polarity = polarity_in

---------------------------------------------------------------------------
(* What the claims about get_subfeddit_id speak of *)

\* The call found its title in the cache and the source resolved the cached id.
HitConfirmed(call) ==
    call.cached_id # None /\ call.answers # <<>> /\ call.answers[1] = "ok"

\* The call found its title in the cache and the source answered that it
\* does not know the cached id.
HitStale(call) ==
    call.cached_id # None /\ call.answers # <<>> /\ call.answers[1] = "NotFoundError"

Listed(title) == \E j \in 1..Len(subfeddits) : subfeddits[j].title = title

\* C19 (as claimed): a call for a title the source lists, whose cached id the
\* source reports as not found, evicts the entry and runs the search: it has
\* started listing, it does not end on the cache entry being gone, and when
\* it returns, it returns the id the source lists for the title, not the
\* stale one.
C19_StaleEntryRefreshed ==
    \A r \in Reqs :
        (HitStale(calls[r]) /\ Listed(calls[r].subfeddit_title)) =>
            /\ calls[r].error # "KeyError"
            /\ calls[r].listings # <<>>
            /\ calls[r].pc = "returned" =>
                  /\ calls[r].returned # calls[r].cached_id
                  /\ \E j \in 1..Len(subfeddits) :
                        /\ subfeddits[j].title = calls[r].subfeddit_title
                        /\ calls[r].returned = <<subfeddits[j].id>>

\* The cache maps sub's title to sub's id.
Cached(c, sub) == sub.title \in DOMAIN c.data /\ c.data[sub.title] = sub.id

\* The last n elements of seq, or all of seq if it has fewer.
LastOf(seq, n) == SubSeq(seq, Len(seq) - Min(n, Len(seq)) + 1, Len(seq))

\* C20 (as claimed): when a search returns, the cache holds every pair the
\* call has seen in its batches, also when no entry expired meanwhile.
C20_EverySeenPairCached ==
    \A r \in Reqs :
        (calls[r].pc = "returned" /\ calls[r].listings # <<>> /\ calls[r].undisturbed) =>
            \A j \in 1..Len(calls[r].seen) : Cached(subfeddit_cache, calls[r].seen[j])

\* C20 (amended): at the return of a search the cache holds the pairs of the
\* CACHE_MAX_SIZE subfeddits scanned last in the batch of the match, the
\* match included; if no entry expired or changed while the call awaited the
\* source, it holds the pairs of the CACHE_MAX_SIZE subfeddits seen last over
\* all batches, and, when that many were seen, nothing else: the pairs seen
\* before them have been evicted.
C20_RecentPairsCached ==
    [][\A r \in Reqs :
          (calls[r].pc = "listing" /\ calls'[r].pc = "returned") =>
              LET call == calls'[r]
                  recent == LastOf(call.seen, CACHE_MAX_SIZE)
              IN  /\ call.seen # <<>>
                  /\ call.seen[Len(call.seen)].title = call.subfeddit_title
                  /\ call.returned = <<call.seen[Len(call.seen)].id>>
                  /\ \A j \in 1..Len(LastOf(call.scanned, CACHE_MAX_SIZE)) :
                        Cached(subfeddit_cache', LastOf(call.scanned, CACHE_MAX_SIZE)[j])
                  /\ call.undisturbed =>
                        /\ \A j \in 1..Len(recent) : Cached(subfeddit_cache', recent[j])
                        /\ Len(call.seen) >= CACHE_MAX_SIZE =>
                              DOMAIN subfeddit_cache'.data
                                  = {recent[j].title : j \in 1..Len(recent)}]_vars

\* A search that saw more subfeddits than the cache holds has returned: the
\* cache holds the pair of the match and of the subfeddit seen before it,
\* from the batch before, and no longer the pair seen first.
C20_Witness ==
    /\ calls["r1"].pc = "returned"
    /\ calls["r1"].undisturbed
    /\ Len(calls["r1"].listings) = 2
    /\ Len(calls["r1"].seen) = CACHE_MAX_SIZE + 1
    /\ Cached(subfeddit_cache, calls["r1"].seen[CACHE_MAX_SIZE + 1])
    /\ Cached(subfeddit_cache, calls["r1"].seen[CACHE_MAX_SIZE])
    /\ ~Cached(subfeddit_cache, calls["r1"].seen[1])

\* The listings of the call are skip = 0, B, 2B, ..., each but the last
\* answered with a full batch.
ListingHistoryOk(call) ==
    \A j \in 1..Len(call.listings) :
        /\ call.listings[j] = (j - 1) * QUERY_BATCH_SIZE
        /\ j < Len(call.listings) => Len(subfeddits) >= j * QUERY_BATCH_SIZE

---------------------------------------------------------------------------
(* What the claims about failing collaborators and request validation speak of *)

\* C22: a step of the request from an awaited fetch either records the
\* answered fetch or ends the request with the error the client raised, the
\* scorer never called; a step from the awaited scorer call either records
\* the outputs or ends the request with the error raised; a failed request
\* has returned no list, takes no further step (no call is issued again),
\* and has called the scorer at most once.
C22_FailurePropagates ==
    /\ [](pc = "failed" =>
              /\ error # ""
              /\ result = <<>>
              /\ Len(scorer_calls) <= 1)
    /\ [][/\ pc # "failed"
          /\ (pc = "fetching" /\ fetches' = fetches) =>
                /\ pc' = "failed"
                /\ error' \in ClientErrors \cup {"NotFoundError"}
                /\ scorer_calls' = <<>>
                /\ result' = <<>>
          /\ (pc = "scoring" /\ n_outputs' = n_outputs) =>
                /\ pc' = "failed"
                /\ error' \in ScorerErrors
                /\ scorer_calls' = scorer_calls
                /\ fetches' = fetches
                /\ result' = <<>>]_vars

\* The second fetch of a request has failed, after a full first page with
\* qualifying comments, and the scorer has not been called.
C22_Witness ==
    /\ pc = "failed"
    /\ error = "InternalServerError"
    /\ Len(fetches) = 1
    /\ comments # <<>>
    /\ scorer_calls = <<>>
    /\ result = <<>>

\* The request gives both bounds, the lower one above the upper one.
BoundsInverted ==
    min_datetime # None /\ max_datetime # None /\ min_datetime[1] > max_datetime[1]

ClaimedOutcome(status, valid, value) ==
    CASE status = 200 -> IF valid THEN Ok(value) ELSE Raise("ResponseValidationError")
      [] status = 400 -> Raise("BadRequestError")
      [] status = 404 -> Raise("NotFoundError")
      [] status = 500 -> Raise("InternalServerError")
      [] OTHER -> Raise("UnexpectedError")

\* C25 (as claimed): each client maps the response it was given to the one
\* outcome its status and body call for, an error ends the client's call as
\* it is, and a status other than 200 never yields a value.
C25_OneOutcomePerResponse ==
    /\ apc = "analyzed" =>
          /\ handle_response(response)
                 = ClaimedOutcome(response.status_code,
                                  ValidOutputs = 1..Len(response.json), response.json)
          /\ ~handle_response(response).ok => outcome = <<handle_response(response)>>
          /\ response.status_code # 200 => ~outcome[1].ok
    /\ apc = "received" =>
          /\ outcome
                 = <<ClaimedOutcome(response.status_code,
                                    /\ DOMAIN response.json = {"id", "title"}
                                    /\ response.json["id"][1] = "int"
                                    /\ response.json["title"][1] = "str",
                                    [id |-> response.json["id"][2],
                                     title |-> response.json["title"][2]])>>
          /\ response.status_code # 200 => ~outcome[1].ok

\* The entries of the batch at skp that come after the position n of the
\* listing.
LaterInBatch(skp, n) ==
    {subfeddits[j] : j \in {i \in (n + 1)..(skp + QUERY_BATCH_SIZE) : i <= Len(subfeddits)}}

\* C26: a search that returns has scanned the listing from its start up to
\* the first entry with the title and no further, it returns the id of that
\* entry, its last listing call is the one for the page of that entry, and
\* the step that returns leaves the matching pair as the entry written last:
\* an entry of the batch after the match is not written, its pair is in the
\* cache afterwards only if it was there before.
C26_FirstMatchReturns ==
    /\ [](\A r \in Reqs :
              (calls[r].pc = "returned" /\ calls[r].listings # <<>>) =>
                  LET n == Len(calls[r].seen)
                  IN  /\ n >= 1
                      /\ calls[r].seen = SubSeq(subfeddits, 1, n)
                      /\ subfeddits[n].title = calls[r].subfeddit_title
                      /\ \A j \in 1..(n - 1) :
                            subfeddits[j].title # calls[r].subfeddit_title
                      /\ calls[r].returned = <<subfeddits[n].id>>
                      /\ Len(calls[r].listings) = ((n - 1) \div QUERY_BATCH_SIZE) + 1
                      /\ calls[r].skip = ((n - 1) \div QUERY_BATCH_SIZE) * QUERY_BATCH_SIZE
                      /\ ListingHistoryOk(calls[r]))
    /\ [][\A r \in Reqs :
              (calls[r].pc = "listing" /\ calls'[r].pc = "returned") =>
                  LET title == calls[r].subfeddit_title
                      c == subfeddit_cache'
                  IN  /\ c.links # <<>>
                      /\ c.links[Len(c.links)] = title
                      /\ c.lru[Len(c.lru)] = title
                      /\ <<c.data[title]>> = calls'[r].returned
                      /\ \A e \in LaterInBatch(calls[r].skip, Len(calls'[r].seen)) :
                            Cached(c, e) => Cached(subfeddit_cache, e)]_vars

\* A search for the first title has returned id 1 from the first page, in
\* which the same title comes again under id 2.
C26_Witness ==
    /\ calls["r1"].pc = "returned"
    /\ calls["r1"].subfeddit_title = TitleOf(1)
    /\ calls["r1"].listings = <<0>>
    /\ calls["r1"].returned = <<1>>
    /\ Len(subfeddits) = 2
    /\ subfeddits[2] = [id |-> 2, title |-> TitleOf(1)]
    /\ subfeddit_cache.data[TitleOf(1)] = 1

\* C29: a call whose revalidation fails with an error of the client other
\* than not-found ends with that error after its one resolve call, without
\* any listing call, and the step that ends it leaves the cache, the entry
\* of the title with it, as it was.
C29_OtherErrorsPropagate ==
    /\ [](\A r \in Reqs :
              (/\ calls[r].cached_id # None
               /\ calls[r].answers # <<>>
               /\ calls[r].answers[1] \in ClientErrors) =>
                  /\ calls[r].pc = "failed"
                  /\ calls[r].error = calls[r].answers[1]
                  /\ calls[r].returned = None
                  /\ calls[r].resolves = <<calls[r].cached_id[1]>>
                  /\ calls[r].listings = <<>>
                  /\ calls[r].answers = <<calls[r].error>>)
    /\ [][\A r \in Reqs :
              (/\ calls[r].pc = "resolving"
               /\ calls'[r].pc = "failed"
               /\ calls'[r].error \in ClientErrors) =>
                  subfeddit_cache' = subfeddit_cache]_vars

\* The revalidation of a cached id failed with an internal server error
\* and the entry of the title is still in the cache.
C29_Witness ==
    /\ calls["r1"].pc = "failed"
    /\ calls["r1"].error = "InternalServerError"
    /\ calls["r1"].cached_id = <<1>>
    /\ calls["r1"].subfeddit_title = TitleOf(1)
    /\ calls["r1"].listings = <<>>
    /\ cache_contains(subfeddit_cache, TitleOf(1))
    /\ subfeddit_cache.data[TitleOf(1)] = 1

---------------------------------------------------------------------------
(* What the claim about the wait-api script speaks of *)

\* The request came back with a response of status 200.
RequestSucceeded(answer) == answer.ok /\ answer.value.status_code = 200

\* C30 (as claimed): the script makes at most `retries` requests, none when
\* retries is zero or less; attempts counts the requests that failed; the
\* first request that succeeds, whatever version it reports, ends the script
\* with status 0; and the script exits with status 1 only after `retries`
\* failed requests.
C30_AtMostRetriesAttempts ==
    LET n == Len(version_requests)
        failed == {j \in 1..n : ~RequestSucceeded(version_requests[j])}
    IN  /\ n <= (IF retries > 0 THEN retries ELSE 0)
        /\ attempts = Cardinality(failed)
        /\ \A j \in 1..(n - 1) : j \in failed
        /\ (n > 0 /\ n \notin failed) => exit_code = <<0>>
        /\ exit_code = <<0>> => (n > 0 /\ n \notin failed)
        /\ exit_code = <<1>> =>
              /\ failed = 1..n
              /\ n = (IF retries > 0 THEN retries ELSE 0)

---------------------------------------------------------------------------
(* What the claims about requests sharing the title cache speak of *)

\* Every call the request awaited was answered by the source: the listings
\* with a page, the revalidation with the id or with not-found.
SourceAnswered(call) ==
    \A j \in 1..Len(call.answers) :
        \/ call.answers[j] = "ok"
        \/ j = 1 /\ call.cached_id # None /\ call.answers[j] = "NotFoundError"

\* The source lists the id under the title.
ListedAs(title, id) ==
    \E j \in 1..Len(subfeddits) : subfeddits[j].title = title /\ subfeddits[j].id = id

\* C23 (as claimed): whatever the interleaving of the requests, a request the
\* source answered returns an id the source lists for its title, or ends
\* with the not-found error for a title the source does not list, and the
\* cache maps a title only to an id the source has reported for it.
C23_NoLostUpdateNoTornRead ==
    /\ \A r \in Reqs :
          SourceAnswered(calls[r]) =>
              /\ calls[r].pc = "returned" =>
                    /\ calls[r].returned # None
                    /\ ListedAs(calls[r].subfeddit_title, calls[r].returned[1])
              /\ calls[r].pc = "failed" =>
                    /\ calls[r].error = "HTTPException"
                    /\ ~Listed(calls[r].subfeddit_title)
    /\ \A t \in DOMAIN subfeddit_cache.data :
          subfeddit_cache.data[t] \in {t[2], PreviousId(t[2])}

\* C27 (as claimed): when both requests ask for the same title, both read the
\* same stale id, and the source answers not-found to both, neither ends
\* with the missing-key error of the eviction: each one that has ended holds
\* the listed id or the not-found error.
C27_EvictionNeverFails ==
    (/\ calls["r1"].subfeddit_title = calls["r2"].subfeddit_title
     /\ calls["r1"].cached_id = calls["r2"].cached_id
     /\ HitStale(calls["r1"])
     /\ HitStale(calls["r2"])) =>
        \A r \in Reqs :
            /\ calls[r].error # "KeyError"
            /\ (calls[r].pc = "failed" /\ SourceAnswered(calls[r])) =>
                  calls[r].error = "HTTPException"

\* C28 (as claimed): a request resumed with not-found for the id it had read,
\* finding under its title an entry with another id, written while it
\* awaited the source, leaves that entry in the cache.
C28_EvictsOnlyRevalidatedId ==
    [][\A r \in Reqs :
          (/\ calls[r].pc = "resolving"
           /\ calls'[r].pc # "resolving"
           /\ calls'[r].answers = <<"NotFoundError">>
           /\ cache_contains(subfeddit_cache, calls[r].subfeddit_title)
           /\ subfeddit_cache.data[calls[r].subfeddit_title] # calls[r].cached_id[1]) =>
              /\ cache_contains(subfeddit_cache', calls[r].subfeddit_title)
              /\ subfeddit_cache'.data[calls[r].subfeddit_title]
                     = subfeddit_cache.data[calls[r].subfeddit_title]]_vars

=============================================================================
